---- MODULE Spec2Model ----
(***************************************************************************)
(* A model of notifr: the routing configuration (TargetsConfig.Decode,     *)
(* validateTargetConfig), the process start-up (main), the HTTP message    *)
(* handler with its fan-out over goroutines (newMessageHandler) and the    *)
(* retry loop of SMTPSender.Send.                                          *)
(*                                                                         *)
(* Go strings are sequences of one-character strings, so that Split,       *)
(* Sprintf and the e-mail pattern work on characters as the code does.     *)
(***************************************************************************)
EXTENDS Integers, Sequences, FiniteSets, Bags, TLC

(***************************************************************************)
(* Bounds of the model.                                                    *)
(***************************************************************************)
\* the number of comma-separated entries of the routing string
MaxEntries == 3
\* the length of SMTPConfig.Retries
MaxRetries == 3
\* the number of requests in flight at once
MaxRequests == 1
\* the number of raw entries a configuration decodes in all
MaxDecoded == 3
\* by how many characters the first line of a text may exceed subjectMaxLen
MaxOver == 2

(***************************************************************************)
(* Strings.                                                                *)
(***************************************************************************)
RECURSIVE Split(_, _)
\* strings.Split(s, sep) for a one-character separator, computed half by
\* half: "" splits to [""], and the piece that ends the first half goes on in
\* the piece that starts the second
Split(s, sep) ==
    IF Len(s) = 0 THEN <<<<>>>>
    ELSE IF Len(s) = 1 THEN (IF s[1] = sep THEN <<<<>>, <<>>>> ELSE <<s>>)
    ELSE LET h == Len(s) \div 2
             l == Split(SubSeq(s, 1, h), sep)
             r == Split(SubSeq(s, h + 1, Len(s)), sep)
         IN  SubSeq(l, 1, Len(l) - 1) \o <<l[Len(l)] \o r[1]>> \o Tail(r)

RECURSIVE Join(_, _)
\* strings.Join(ss, sep)
Join(ss, sep) ==
    IF ss = <<>> THEN <<>>
    ELSE IF Len(ss) = 1 THEN ss[1]
    ELSE ss[1] \o <<sep>> \o Join(Tail(ss), sep)

\* fmt.Sprintf("%s:%s:%s", targetName, delivery.name, recipient)
targetString(targetName, dlvName, recipient) ==
    targetName \o <<":">> \o dlvName \o <<":">> \o recipient

(***************************************************************************)
(* valError and its kinds.                                                 *)
(***************************************************************************)
errKindInvTargetSyntax == "invalid target's syntax"
errKindEmptyTargets == "empty targets"
errKindUnsupportedDelivery == "unsupported delivery type"
errKindInvalidEmail == "invalid email"

\* &valError{kind: kind, target: target}
valError(kind, target) == [kind |-> kind, target |-> target]
\* the nil error of Decode and of validateTargetConfig
NoValError == [kind |-> "", target |-> <<>>]

DeliverySMTP == <<"s", "m", "t", "p">>

(***************************************************************************)
(* TargetsConfig: targets is a function from target names to targets, a    *)
(* target is the sequence of its deliveries, a delivery is a record        *)
(* [name, recipients].                                                     *)
(***************************************************************************)
NoTargets == <<>>

\* the index in tgt of the delivery named dlvName, 0 when there is none
deliveryIndex(tgt, dlvName) ==
    IF \E i \in 1..Len(tgt) : tgt[i].name = dlvName
    THEN CHOOSE i \in 1..Len(tgt) :
            /\ tgt[i].name = dlvName
            /\ \A j \in 1..(i - 1) : tgt[j].name # dlvName
    ELSE 0

\* one valid entry merged into the targets, were it to add a delivery each time
mergeEntry_AlwaysNew(targets, tgtName, dlvName, rcpt) ==
    LET tgt == IF tgtName \in DOMAIN targets THEN targets[tgtName] ELSE <<>>
        new == Append(tgt, [name |-> dlvName, recipients |-> <<rcpt>>])
    IN  [n \in (DOMAIN targets) \cup {tgtName} |->
            IF n = tgtName THEN new ELSE targets[n]]

\* one valid entry merged into the targets
mergeEntry(targets, tgtName, dlvName, rcpt) ==
    LET tgt == IF tgtName \in DOMAIN targets THEN targets[tgtName] ELSE <<>>
        i   == deliveryIndex(tgt, dlvName)
        new == IF i = 0
               THEN Append(tgt, [name |-> dlvName, recipients |-> <<rcpt>>])
               ELSE [tgt EXCEPT ![i].recipients = Append(@, rcpt)]
    IN  [n \in (DOMAIN targets) \cup {tgtName} |->
            IF n = tgtName THEN new ELSE targets[n]]

RECURSIVE decodeEntries_NoEmptyCheck(_, _)
\* the loop of Decode, were it to check the number of fields alone
decodeEntries_NoEmptyCheck(targets, entries) ==
    IF entries = <<>> THEN [targets |-> targets, err |-> NoValError]
    ELSE LET v    == Head(entries)
             elem == Split(v, ":")
         IN  IF Len(elem) # 3
             THEN [targets |-> targets, err |-> valError(errKindInvTargetSyntax, v)]
             ELSE decodeEntries_NoEmptyCheck(
                      mergeEntry(targets, elem[1], elem[2], elem[3]), Tail(entries))

RECURSIVE decodeEntries(_, _)
\* the loop of Decode over the entries: it stops at the first invalid entry
decodeEntries(targets, entries) ==
    IF entries = <<>> THEN [targets |-> targets, err |-> NoValError]
    ELSE LET v    == Head(entries)
             elem == Split(v, ":")
         IN  IF Len(elem) # 3
             THEN [targets |-> targets, err |-> valError(errKindInvTargetSyntax, v)]
             ELSE IF elem[1] = <<>> \/ elem[2] = <<>> \/ elem[3] = <<>>
             THEN [targets |-> targets, err |-> valError(errKindInvTargetSyntax, v)]
             ELSE decodeEntries(mergeEntry(targets, elem[1], elem[2], elem[3]),
                                Tail(entries))

\* cnf.Decode(value), were it to split the empty value as any other
Decode_NoEmptyCase(targets, value) == decodeEntries(targets, Split(value, ","))

\* cnf.Decode(value), were it to make a new map in every call
Decode_FreshMap(targets, value) ==
    IF value = <<>> THEN [targets |-> targets, err |-> NoValError]
    ELSE decodeEntries(NoTargets, Split(value, ","))

\* cnf.Decode(value), were a failed call to leave the targets as they were
Decode_AllOrNothing(targets, value) ==
    IF value = <<>> THEN [targets |-> targets, err |-> NoValError]
    ELSE LET res == decodeEntries(targets, Split(value, ","))
         IN  IF res.err # NoValError
             THEN [targets |-> targets, err |-> res.err]
             ELSE res

\* cnf.Decode(value): the targets after the call and the error it returns
Decode(targets, value) ==
    IF value = <<>> THEN [targets |-> targets, err |-> NoValError]
    ELSE decodeEntries(targets, Split(value, ","))

(***************************************************************************)
(* The e-mail pattern reEmail and regexp.MatchString, which looks for a    *)
(* match anywhere in the string.                                           *)
(***************************************************************************)
AlNum == {"a", "b", "c", "d", "e", "f", "g", "h", "i", "j", "k", "l", "m",
          "n", "o", "p", "q", "r", "s", "t", "u", "v", "w", "x", "y", "z",
          "0", "1", "2", "3", "4", "5", "6", "7", "8", "9"}
\* the characters of the local part; the pattern also admits the backquote,
\* which no TLA+ string can hold and no recipient of the model contains
AText == AlNum \cup {"!", "#", "$", "%", "&", "'", "*", "+", "/", "=", "?",
                     "^", "_", "{", "|", "}", "~", "-"}

\* a domain label: letters, digits and hyphens, no hyphen first or last
IsLabel(s) ==
    /\ Len(s) >= 1
    /\ s[1] \in AlNum
    /\ s[Len(s)] \in AlNum
    /\ \A i \in 1..Len(s) : s[i] \in AlNum \cup {"-"}

\* the local part: non-empty runs of atext characters separated by dots
IsLocalPart(s) ==
    LET parts == Split(s, ".")
    IN  \A i \in 1..Len(parts) :
            /\ parts[i] # <<>>
            /\ \A k \in 1..Len(parts[i]) : parts[i][k] \in AText

\* the domain: two or more labels separated by dots
IsDomain(s) ==
    LET parts == Split(s, ".")
    IN  /\ Len(parts) >= 2
        /\ \A i \in 1..Len(parts) : IsLabel(parts[i])

\* the whole of s is local-part@domain
IsEmail(s) ==
    \E k \in 1..Len(s) :
        /\ s[k] = "@"
        /\ IsLocalPart(SubSeq(s, 1, k - 1))
        /\ IsDomain(SubSeq(s, k + 1, Len(s)))

\* reEmail.MatchString(s): some substring of s is an e-mail address
reEmailMatchString(s) ==
    \E i \in 1..Len(s) : \E j \in i..Len(s) : IsEmail(SubSeq(s, i, j))


(***************************************************************************)
(* validateTargetConfig.  supported is the set of the registry's keys;     *)
(* order is the order in which the range over the map cnf.targets visits   *)
(* the target names, which Go leaves unspecified.                          *)
(***************************************************************************)
\* a faulty checkRecipient: the e-mail check is applied to every channel
checkRecipient_AllChannels(supported, targetName, dlv, recipient) ==
    IF dlv.name \notin supported
    THEN valError(errKindUnsupportedDelivery,
                  targetString(targetName, dlv.name, recipient))
    ELSE IF ~reEmailMatchString(recipient)
    THEN valError(errKindInvalidEmail,
                  targetString(targetName, dlv.name, recipient))
    ELSE NoValError

\* a faulty loop body: the recipient's syntax is checked before the support
checkRecipient_EmailFirst(supported, targetName, dlv, recipient) ==
    IF dlv.name = DeliverySMTP /\ ~reEmailMatchString(recipient)
    THEN valError(errKindInvalidEmail,
                  targetString(targetName, dlv.name, recipient))
    ELSE IF dlv.name \notin supported
    THEN valError(errKindUnsupportedDelivery,
                  targetString(targetName, dlv.name, recipient))
    ELSE NoValError

\* the body of the innermost loop for one (target, delivery, recipient)
checkRecipient(supported, targetName, dlv, recipient) ==
    IF dlv.name \notin supported
    THEN valError(errKindUnsupportedDelivery,
                  targetString(targetName, dlv.name, recipient))
    ELSE IF dlv.name = DeliverySMTP /\ ~reEmailMatchString(recipient)
    THEN valError(errKindInvalidEmail,
                  targetString(targetName, dlv.name, recipient))
    ELSE NoValError

RECURSIVE validateRecipients(_, _, _, _)
\* the loop over delivery.recipients, from the k-th recipient on
validateRecipients(supported, targetName, dlv, k) ==
    IF k > Len(dlv.recipients) THEN NoValError
    ELSE LET e == checkRecipient(supported, targetName, dlv, dlv.recipients[k])
         IN  IF e # NoValError THEN e
             ELSE validateRecipients(supported, targetName, dlv, k + 1)

RECURSIVE validateDeliveries(_, _, _, _)
\* the loop over target.deliveries, from the i-th delivery on
validateDeliveries(supported, targetName, tgt, i) ==
    IF i > Len(tgt) THEN NoValError
    ELSE LET e == validateRecipients(supported, targetName, tgt[i], 1)
         IN  IF e # NoValError THEN e
             ELSE validateDeliveries(supported, targetName, tgt, i + 1)

RECURSIVE validateTargets(_, _, _)
\* the loop over cnf.targets in the given order
validateTargets(supported, targets, order) ==
    IF order = <<>> THEN NoValError
    ELSE LET e == validateDeliveries(supported, Head(order), targets[Head(order)], 1)
         IN  IF e # NoValError THEN e
             ELSE validateTargets(supported, targets, Tail(order))

validateTargetConfig(supported, targets, order) ==
    IF Cardinality(DOMAIN targets) = 0
    THEN valError(errKindEmptyTargets, <<>>)
    ELSE validateTargets(supported, targets, order)

\* the orders in which a range over a map with the keys S can visit them
MapOrders(S) ==
    {o \in [1..Cardinality(S) -> S] : \A i, j \in DOMAIN o : i # j => o[i] # o[j]}


(***************************************************************************)
(* Handler and NewHandler.  senders is the registry, a function from       *)
(* delivery types to senders.                                              *)
(***************************************************************************)
NoHandler == [ok |-> FALSE, senders |-> <<>>, targets |-> NoTargets]

\* a faulty NewHandler: the configuration is not validated
NewHandler_NoValidate(targets, senders, order) ==
    [handler |-> [ok |-> TRUE, senders |-> senders, targets |-> targets],
     err |-> NoValError]

\* NewHandler(targets, senders): the handler and the error it returns
NewHandler(targets, senders, order) ==
    LET err == validateTargetConfig(DOMAIN senders, targets, order)
    IN  IF err # NoValError
        THEN [handler |-> NoHandler, err |-> err]
        ELSE [handler |-> [ok |-> TRUE, senders |-> senders, targets |-> targets],
              err |-> NoValError]

(***************************************************************************)
(* SMTPSender.Send: the retry loop.  An error value is a record: id tells  *)
(* the error values of different attempts apart (0 is nil), net says that  *)
(* it implements net.Error and temp is what its Temporary() returns.       *)
(***************************************************************************)
NilError == [id |-> 0, net |-> FALSE, temp |-> FALSE]

\* what sendfn can return at the k-th attempt
SendOutcomes(k) ==
    {NilError,
     [id |-> k, net |-> TRUE, temp |-> TRUE],
     [id |-> k, net |-> TRUE, temp |-> FALSE],
     [id |-> k, net |-> FALSE, temp |-> FALSE]}

\* a faulty classification: every error is retried
isTemporaryNetError_Always(err) == TRUE

\* v, ok := err.(net.Error); ok && v.Temporary()
isTemporaryNetError(err) == err.net /\ err.temp

\* the state of a call of Send that has not started
NoCall == [st |-> "none", idx |-> 0, err |-> NilError, trace |-> <<>>]

\* Send up to the range statement: with no entry the loop body never runs
\* and Send returns err, which is still nil
smtpSendEnter(rs) ==
    IF Len(rs) = 0
    THEN [st |-> "ret", idx |-> 0, err |-> NilError, trace |-> <<>>]
    ELSE [st |-> "attempt", idx |-> 1, err |-> NilError, trace |-> <<>>]

\* a faulty loop body: no break after a successful attempt
smtpSendAttempt_NoBreak(c, rs, out) ==
    LET t == Append(c.trace, [ev |-> "attempt", n |-> c.idx, d |-> 0, err |-> out])
    IN  IF out = NilError
        THEN IF c.idx < Len(rs)
             THEN [c EXCEPT !.st = "attempt", !.idx = c.idx + 1, !.err = out,
                            !.trace = t]
             ELSE [c EXCEPT !.st = "ret", !.err = out, !.trace = t]
        ELSE IF ~(out.net /\ out.temp)
        THEN [c EXCEPT !.st = "ret", !.err = out, !.trace = t]
        ELSE [c EXCEPT !.st = "sleep", !.err = out, !.trace = t]

\* a faulty loop body: the first error is kept, later ones are dropped
smtpSendAttempt_KeepFirstErr(c, rs, out) ==
    LET t == Append(c.trace, [ev |-> "attempt", n |-> c.idx, d |-> 0, err |-> out])
        e == IF c.err = NilError \/ out = NilError THEN out ELSE c.err
    IN  IF out = NilError
        THEN [c EXCEPT !.st = "ret", !.err = e, !.trace = t]
        ELSE IF ~(out.net /\ out.temp)
        THEN [c EXCEPT !.st = "ret", !.err = e, !.trace = t]
        ELSE [c EXCEPT !.st = "sleep", !.err = e, !.trace = t]

\* one call of sendfn in the loop and the two tests that follow it
smtpSendAttempt(c, rs, out) ==
    LET t == Append(c.trace, [ev |-> "attempt", n |-> c.idx, d |-> 0, err |-> out])
    IN  IF out = NilError
        THEN [c EXCEPT !.st = "ret", !.err = out, !.trace = t]
        ELSE IF ~isTemporaryNetError(out)
        THEN [c EXCEPT !.st = "ret", !.err = out, !.trace = t]
        ELSE [c EXCEPT !.st = "sleep", !.err = out, !.trace = t]

\* a faulty loop: every wait lasts as long as the first entry says
smtpSendSleep_FirstWait(c, rs) ==
    LET t == Append(c.trace,
                    [ev |-> "sleep", n |-> c.idx, d |-> rs[1], err |-> NilError])
    IN  IF c.idx < Len(rs)
        THEN [c EXCEPT !.st = "attempt", !.idx = c.idx + 1, !.trace = t]
        ELSE [c EXCEPT !.st = "ret", !.trace = t]

\* time.Sleep(n) and the step of the range statement to the next entry
smtpSendSleep(c, rs) ==
    LET t == Append(c.trace,
                    [ev |-> "sleep", n |-> c.idx, d |-> rs[c.idx], err |-> NilError])
    IN  IF c.idx < Len(rs)
        THEN [c EXCEPT !.st = "attempt", !.idx = c.idx + 1, !.trace = t]
        ELSE [c EXCEPT !.st = "ret", !.trace = t]

(***************************************************************************)
(* The inputs of the model.                                                *)
(***************************************************************************)
DeliveryIM == <<"i", "m">>

\* the raw entries the routing string is made of
EntryPool ==
    { <<"t", ":", "s", "m", "t", "p", ":", "a", "@", "b", ".", "c">>,
      <<"t", ":", "i", "m", ":", "x">>,
      <<"u", ":", "s", "m", "t", "p", ":", "d", "@", "e", ".", "f">>,
      <<"u", ":", "s", "m", "t", "p", ":", "x">>,
      <<"t", ":", "s", "m", "t", "p">>,
      <<"t", ":", ":", "x">>,
      <<"u", ":", "i", "m", ":", "y", ":", "z">> }

\* the routing strings of the start-up: up to MaxEntries entries joined by commas
EnvValues ==
    UNION {{Join(es, ",") : es \in [1..n -> EntryPool]} : n \in 0..MaxEntries}

\* the routing strings of a process that goes on to serve requests
ServeEnvValues ==
    { <<>>,
      \* t:smtp
      <<"t", ":", "s", "m", "t", "p">>,
      \* u:smtp:x
      <<"u", ":", "s", "m", "t", "p", ":", "x">>,
      \* t:smtp:a@b.c
      <<"t", ":", "s", "m", "t", "p", ":", "a", "@", "b", ".", "c">>,
      \* t:im:x,u:smtp:d@e.f,t:smtp:a@b.c,t:im:y
      <<"t", ":", "i", "m", ":", "x", ",",
        "u", ":", "s", "m", "t", "p", ":", "d", "@", "e", ".", "f", ",",
        "t", ":", "s", "m", "t", "p", ":", "a", "@", "b", ".", "c", ",",
        "t", ":", "i", "m", ":", "y">> }

\* the i-th wait of the default NOTIFR_SMTP_RETRIES, in seconds
RetryWait(i) == IF i = 1 THEN 10 ELSE IF i = 2 THEN 60 ELSE 600

\* the values of SMTPConfig.Retries
RetriesValues == {[i \in 1..n |-> RetryWait(i)] : n \in 0..MaxRetries}

\* the senders of the registry
SMTPSender == [impl |-> "SMTPSender", name |-> DeliverySMTP]
OtherSender(name) == [impl |-> "Sender", name |-> name]
NilSender == [impl |-> "nil", name |-> <<>>]

\* the registries a handler is built with
Registries ==
    { [n \in {DeliverySMTP} |-> SMTPSender],
      [n \in {DeliverySMTP, DeliveryIM} |->
          IF n = DeliverySMTP THEN SMTPSender ELSE OtherSender(n)],
      [n \in {DeliveryIM} |-> OtherSender(n)] }

(***************************************************************************)
(* The state.                                                              *)
(***************************************************************************)
VARIABLES
    env,        \* NOTIFR_TARGETS: [set, value]
    retries,    \* cnf.SMTP.Retries
    senders,    \* the registry of senders
    pc,         \* where main is
    cnf,        \* cnf.Targets
    handler,    \* the Handler NewHandler returned
    exitCode,   \* the exit code of the process, -1 while it runs
    decodeErr,  \* the error Decode returned
    valErr,     \* the error validateTargetConfig returned
    valCount,   \* the number of calls of validateTargetConfig
    bound,      \* the listening socket is bound
    reqs,       \* the requests being handled
    dec,        \* a configuration under a sequence of Decode calls
    mail        \* the mail a call of Send builds for a message

vars == <<env, retries, senders, pc, cnf, handler, exitCode, decodeErr, valErr,
          valCount, bound, reqs, dec, mail>>

Requests == 1..MaxRequests


(***************************************************************************)
(* The requests: the query parameter "target" and the body.                *)
(***************************************************************************)
NoMessage == [Subject |-> "", Text |-> ""]

\* a body is what is known of it: its kind and, for a JSON object, the
\* values of "subject" and "text" ("" for a field that is absent)
NoBody == [kind |-> "NoBody", subject |-> "", text |-> ""]
Bodies ==
    { NoBody,
      \* not JSON
      [kind |-> "malformed", subject |-> "", text |-> ""],
      \* JSON, but not an object
      [kind |-> "array", subject |-> "", text |-> ""],
      [kind |-> "object", subject |-> "S", text |-> ""],
      [kind |-> "object", subject |-> "", text |-> "T"],
      [kind |-> "object", subject |-> "S", text |-> "T"],
      \* a JSON object without a text, followed by text that is not JSON
      [kind |-> "object+trailing", subject |-> "S", text |-> ""] }

\* json.NewDecoder(r.Body).Decode(&msg): the decoder reads one JSON value
\* and leaves what follows it unread
jsonDecode(body) ==
    IF body.kind \in {"object", "object+trailing"}
    THEN [err |-> FALSE, msg |-> [Subject |-> body.subject, Text |-> body.text]]
    ELSE [err |-> TRUE, msg |-> NoMessage]

\* the values of the query parameter "target": "" when it is absent
QueryTargets == {<<>>, <<"t">>, <<"u">>, <<"z">>}

NoResponse == [text |-> "", arg |-> <<>>]
\* http.Error(w, text, http.StatusBadRequest)
BadRequest(text, arg) ==
    [ok |-> FALSE, status |-> 400, resp |-> [text |-> text, arg |-> arg],
     msg |-> NoMessage]

\* the checks of the handler, were the body to be checked before the target
checkRequest_BodyFirst(targets, targetName, body) ==
    IF body = NoBody
    THEN BadRequest("No body", <<>>)
    ELSE IF jsonDecode(body).err
    THEN BadRequest("Invalid body", <<>>)
    ELSE IF targetName = <<>>
    THEN BadRequest("Parameter 'target' is missed", <<>>)
    ELSE IF targetName \notin DOMAIN targets
    THEN BadRequest("Unknown target", targetName)
    ELSE IF jsonDecode(body).msg.Text = ""
    THEN BadRequest("Missing required fields: text", <<>>)
    ELSE [ok |-> TRUE, status |-> 0, resp |-> NoResponse,
          msg |-> jsonDecode(body).msg]

\* the checks of the handler, in the order of the code
checkRequest(targets, targetName, body) ==
    IF targetName = <<>>
    THEN BadRequest("Parameter 'target' is missed", <<>>)
    ELSE IF targetName \notin DOMAIN targets
    THEN BadRequest("Unknown target", targetName)
    ELSE IF body = NoBody
    THEN BadRequest("No body", <<>>)
    ELSE IF jsonDecode(body).err
    THEN BadRequest("Invalid body", <<>>)
    ELSE IF jsonDecode(body).msg.Text = ""
    THEN BadRequest("Missing required fields: text", <<>>)
    ELSE [ok |-> TRUE, status |-> 0, resp |-> NoResponse,
          msg |-> jsonDecode(body).msg]

\* senders[name]: the nil sender when the registry has no such key
lookupSender(reg, name) == IF name \in DOMAIN reg THEN reg[name] ELSE NilSender

NoDelivery == [name |-> <<>>, recipients |-> <<>>]
\* a goroutine of the fan-out that has not been started
NoTask == [st |-> "none", sender |-> NilSender, dlv |-> NoDelivery,
           msg |-> NoMessage, call |-> NoCall]

IdleRequest ==
    [st |-> "idle", target |-> <<>>, body |-> NoBody, msg |-> NoMessage,
     status |-> 0, resp |-> NoResponse, deliveries |-> <<>>, wg |-> 0,
     next |-> 0, tasks |-> <<>>, calls |-> EmptyBag, log |-> {}]

\* a faulty handler: the text is checked only after the fan-out is set up
handleReceive_LateTextCheck(h, targetName, body) ==
    LET c == checkRequest(h.targets, targetName, body)
    IN  IF ~c.ok /\ c.resp.text # "Missing required fields: text"
        THEN [IdleRequest EXCEPT !.st = "done", !.target = targetName,
                                 !.body = body, !.status = c.status,
                                 !.resp = c.resp]
        ELSE LET ds == h.targets[targetName]
             IN  [IdleRequest EXCEPT !.st = "spawn",
                                     !.target = targetName, !.body = body,
                                     !.status = c.status, !.resp = c.resp,
                                     !.msg = jsonDecode(body).msg,
                                     !.deliveries = ds,
                                     !.wg = Len(ds), !.next = 1,
                                     !.tasks = [i \in 1..Len(ds) |-> NoTask]]

\* the handler up to and including wg.Add
handleReceive(h, targetName, body) ==
    LET c == checkRequest(h.targets, targetName, body)
    IN  IF ~c.ok
        THEN [IdleRequest EXCEPT !.st = "done", !.target = targetName,
                                 !.body = body, !.status = c.status,
                                 !.resp = c.resp]
        ELSE LET ds == h.targets[targetName]
             IN  [IdleRequest EXCEPT !.st = IF Len(ds) = 0 THEN "wait" ELSE "spawn",
                                     !.target = targetName, !.body = body,
                                     !.msg = c.msg, !.deliveries = ds,
                                     !.wg = Len(ds), !.next = 1,
                                     !.tasks = [i \in 1..Len(ds) |-> NoTask]]

\* a faulty loop: every goroutine sees the last delivery of the target
handleSpawn_SharedDelivery(h, q) ==
    LET i   == q.next
        dlv == q.deliveries[Len(q.deliveries)]
    IN  [q EXCEPT !.tasks[i] = [st |-> "ready",
                                sender |-> lookupSender(h.senders, dlv.name),
                                dlv |-> dlv, msg |-> q.msg, call |-> NoCall],
                  !.next = i + 1,
                  !.st = IF i = Len(q.deliveries) THEN "wait" ELSE "spawn"]

\* one iteration of the loop over target.deliveries: the go statement
handleSpawn(h, q) ==
    LET i   == q.next
        dlv == q.deliveries[i]
    IN  [q EXCEPT !.tasks[i] = [st |-> "ready",
                                sender |-> lookupSender(h.senders, dlv.name),
                                dlv |-> dlv, msg |-> q.msg, call |-> NoCall],
                  !.next = i + 1,
                  !.st = IF i = Len(q.deliveries) THEN "wait" ELSE "spawn"]

\* the goroutine calls sender.Send(dlv.recipients, msg)
taskSendBegin(q, i, rs) ==
    LET t == q.tasks[i]
    IN  [q EXCEPT !.calls = @ (+) SetToBag({[sender |-> t.sender,
                                                 recipients |-> t.dlv.recipients,
                                                 msg |-> t.msg]}),
                  !.tasks[i].st = "send",
                  !.tasks[i].call =
                      IF t.sender.impl = "SMTPSender"
                      THEN smtpSendEnter(rs)
                      ELSE [NoCall EXCEPT !.st = "run"]]

\* a faulty goroutine: wg.Done runs only when Send has returned nil
taskFinish_DoneOnSuccess(q, i) ==
    LET t == q.tasks[i]
    IN  [q EXCEPT !.tasks[i].st = "done",
                  !.log = IF t.call.err # NilError
                          THEN @ \cup {[delivery |-> t.dlv.name,
                                        err |-> t.call.err, msg |-> t.msg]}
                          ELSE @,
                  !.wg = IF t.call.err = NilError THEN @ - 1 ELSE @]

\* Send has returned: the goroutine logs the error and runs wg.Done
taskFinish(q, i) ==
    LET t == q.tasks[i]
    IN  [q EXCEPT !.tasks[i].st = "done",
                  !.log = IF t.call.err # NilError
                          THEN @ \cup {[delivery |-> t.dlv.name,
                                        err |-> t.call.err, msg |-> t.msg]}
                          ELSE @,
                  !.wg = @ - 1]

\* a faulty handler: a logged Send error becomes a 500
handleReturn_SurfaceErrors(q) ==
    [q EXCEPT !.st = "done",
              !.status = IF q.log = {} THEN 200 ELSE 500,
              !.resp = IF q.log = {} THEN NoResponse
                       ELSE [text |-> "Failed to send message", arg |-> <<>>]]

\* wg.Wait has returned and so does the handler: the server answers 200
handleReturn(q) == [q EXCEPT !.st = "done", !.status = 200]


(***************************************************************************)
(* TargetsConfig.MarshalJSON.  order is the order in which the range over  *)
(* cnf.targets visits the target names.                                    *)
(***************************************************************************)
\* what %q writes for one character: a quote and a backslash are escaped
quoteChar(c) ==
    IF c = "\"" THEN <<"\\", "\"">>
    ELSE IF c = "\\" THEN <<"\\", "\\">>
    ELSE <<c>>

RECURSIVE quoteChars(_)
quoteChars(s) == IF s = <<>> THEN <<>> ELSE quoteChar(Head(s)) \o quoteChars(Tail(s))

\* fmt.Sprintf("%q", s): s escaped, between double quotes
SprintfQ(s) == <<"\"">> \o quoteChars(s) \o <<"\"">>

\* the loop over delivery.recipients, were it to stop after one recipient
marshalRecipients_First(targetName, dlv, k) ==
    IF k > Len(dlv.recipients) THEN <<>>
    ELSE <<targetString(targetName, dlv.name, dlv.recipients[k])>>

RECURSIVE marshalRecipients(_, _, _)
\* the loop over delivery.recipients, from the k-th recipient on
marshalRecipients(targetName, dlv, k) ==
    IF k > Len(dlv.recipients) THEN <<>>
    ELSE <<targetString(targetName, dlv.name, dlv.recipients[k])>>
         \o marshalRecipients(targetName, dlv, k + 1)

RECURSIVE marshalDeliveries(_, _, _)
\* the loop over target.deliveries, from the i-th delivery on
marshalDeliveries(targetName, tgt, i) ==
    IF i > Len(tgt) THEN <<>>
    ELSE marshalRecipients(targetName, tgt[i], 1)
         \o marshalDeliveries(targetName, tgt, i + 1)

RECURSIVE marshalTargets(_, _)
\* the loop over cnf.targets in the given order: the slice vv
marshalTargets(targets, order) ==
    IF order = <<>> THEN <<>>
    ELSE marshalDeliveries(Head(order), targets[Head(order)], 1)
         \o marshalTargets(targets, Tail(order))

\* cnf.MarshalJSON(): the bytes it returns
MarshalJSON(targets, order) == SprintfQ(Join(marshalTargets(targets, order), ","))

\* a configuration no Decode has been called on, and nothing marshalled
NoDec == [cnf |-> NoTargets, before |-> NoTargets, hist |-> <<>>,
          err |-> NoValError, json |-> <<>>, marshalled |-> FALSE]

(***************************************************************************)
(* SMTPSender.Send: the subject of the mail.  Here a string is the         *)
(* sequence of its bytes, as len() and slicing see it: an ASCII character  *)
(* is one byte, written as itself, and the character e-acute is the two    *)
(* bytes c3 a9 of its UTF-8 encoding.                                      *)
(***************************************************************************)
subjectMaxLen == 78

\* the UTF-8 bytes of the character e-acute
EAcute == <<"c3", "a9">>

\* the line is an ATX heading of level 1: "# " and a title
isHeading(line) == Len(line) >= 3 /\ line[1] = "#" /\ line[2] = " "

\* what closes the open paragraph, if one is open
closePara(inPara) == IF inPara THEN <<"<", "/", "p", ">", "\n">> ELSE <<>>

\* the empty line between two blocks of the output
blockSep(first) == IF first THEN <<>> ELSE <<"\n">>

RECURSIVE renderLines(_, _, _)
\* blackfriday renders the lines of a text of headings and paragraphs: inPara
\* says that a paragraph is open, first that no block has been written yet
renderLines(lines, inPara, first) ==
    IF lines = <<>> THEN closePara(inPara)
    ELSE LET l == Head(lines)
         IN  IF l = <<>>
             THEN closePara(inPara) \o renderLines(Tail(lines), FALSE, first)
             ELSE IF isHeading(l)
             THEN closePara(inPara) \o blockSep(first)
                  \o <<"<", "h", "1", ">">> \o SubSeq(l, 3, Len(l))
                  \o <<"<", "/", "h", "1", ">", "\n">>
                  \o renderLines(Tail(lines), FALSE, FALSE)
             ELSE IF inPara
             THEN <<"\n">> \o l \o renderLines(Tail(lines), TRUE, FALSE)
             ELSE blockSep(first) \o <<"<", "p", ">">> \o l
                  \o renderLines(Tail(lines), TRUE, FALSE)

\* blackfriday.Run([]byte(text)) for a text of letters, spaces, line breaks and
\* level-1 headings
blackfridayRun(text) == renderLines(Split(text, "\n"), FALSE, TRUE)

RECURSIVE stripTagsFrom(_, _)
\* strip.StripTags over a piece of the text, computed half by half: inTag
\* says that a tag is open where the piece starts, and where it ends
stripTagsFrom(s, inTag) ==
    IF Len(s) = 0 THEN [out |-> <<>>, inTag |-> inTag]
    ELSE IF Len(s) = 1
         THEN IF inTag THEN [out |-> <<>>, inTag |-> s[1] # ">"]
              ELSE IF s[1] = "<" THEN [out |-> <<>>, inTag |-> TRUE]
              ELSE [out |-> s, inTag |-> FALSE]
    ELSE LET h == Len(s) \div 2
             l == stripTagsFrom(SubSeq(s, 1, h), inTag)
             r == stripTagsFrom(SubSeq(s, h + 1, Len(s)), l.inTag)
         IN  [out |-> l.out \o r.out, inTag |-> r.inTag]

\* strip.StripTags(md)
StripTags(md) == stripTagsFrom(md, FALSE).out

RECURSIVE firstNonEmpty(_)
\* the loop over the lines: the first line that is not empty, "" if none is
firstNonEmpty(lines) ==
    IF lines = <<>> THEN <<>>
    ELSE IF Head(lines) # <<>> THEN Head(lines)
    ELSE firstNonEmpty(Tail(lines))

\* the subject Send sets on the mail for the message and the rendered text md
mailSubject(msg, md) ==
    IF msg.Subject # <<>> THEN msg.Subject
    ELSE LET subject == firstNonEmpty(Split(StripTags(md), "\n"))
         IN  IF Len(subject) > subjectMaxLen
             THEN SubSeq(subject, 1, subjectMaxLen)
             ELSE subject

\* no call of Send that builds a mail
NoMail == [st |-> "none", msg |-> [Subject |-> <<>>, Text |-> <<>>],
           md |-> <<>>, subject |-> <<>>]

(***************************************************************************)
(* The process: main, then the requests the server hands to the handler.   *)
(***************************************************************************)
\* the state main starts in, but for the environment
InitProcess ==
    /\ pc = "start"
    /\ cnf = NoTargets
    /\ handler = NoHandler
    /\ exitCode = -1
    /\ decodeErr = NoValError
    /\ valErr = NoValError
    /\ valCount = 0
    /\ bound = FALSE
    /\ reqs = [r \in Requests |-> IdleRequest]
    /\ dec = NoDec
    /\ mail = NoMail

Init ==
    /\ env \in {[set |-> FALSE, value |-> <<>>]}
                 \cup {[set |-> TRUE, value |-> v] : v \in ServeEnvValues}
    /\ retries \in RetriesValues
    /\ senders \in Registries
    /\ InitProcess

\* os.Exit(code)
Exit(code) == pc' = "exited" /\ exitCode' = code

\* main with -version: it writes the version and exits
MainVersion ==
    /\ pc = "start"
    /\ Exit(0)
    /\ UNCHANGED <<env, retries, senders, cnf, handler, decodeErr, valErr,
                   valCount, bound, reqs, dec, mail>>

\* envconfig.Process: NOTIFR_TARGETS is required and decoded by Decode;
\* restOk says that the other variables of the environment are accepted
MainProcessEnv ==
    /\ pc = "start"
    /\ \E restOk \in BOOLEAN :
         IF ~env.set
         THEN Exit(1) /\ UNCHANGED <<cnf, decodeErr>>
         ELSE LET d == Decode(cnf, env.value)
              IN  /\ cnf' = d.targets
                  /\ decodeErr' = d.err
                  /\ IF d.err # NoValError \/ ~restOk
                     THEN Exit(1)
                     ELSE pc' = "logger" /\ UNCHANGED exitCode
    /\ UNCHANGED <<env, retries, senders, handler, valErr, valCount, bound, reqs, dec, mail>>

\* the logger is created, or main exits
MainLogger ==
    /\ pc = "logger"
    /\ \E ok \in BOOLEAN :
         IF ok THEN pc' = "handler" /\ UNCHANGED exitCode ELSE Exit(1)
    /\ UNCHANGED <<env, retries, senders, cnf, handler, decodeErr, valErr,
                   valCount, bound, reqs, dec, mail>>

\* notifr.NewHandler(cnf.Targets, senders), and the exit when it fails
MainNewHandler ==
    /\ pc = "handler"
    /\ \E order \in MapOrders(DOMAIN cnf) :
         LET h == NewHandler(cnf, senders, order)
         IN  /\ valErr' = h.err
             /\ handler' = h.handler
             /\ IF h.err # NoValError
                THEN Exit(1)
                ELSE pc' = "listen" /\ UNCHANGED exitCode
    /\ valCount' = valCount + 1
    /\ UNCHANGED <<env, retries, senders, cnf, decodeErr, bound, reqs, dec, mail>>

\* http.ListenAndServe binds the socket and serves, or returns an error
MainListen ==
    /\ pc = "listen"
    /\ \E ok \in BOOLEAN :
         /\ bound' = ok
         /\ IF ok THEN pc' = "serving" /\ UNCHANGED exitCode ELSE Exit(1)
    /\ UNCHANGED <<env, retries, senders, cnf, handler, decodeErr, valErr,
                   valCount, reqs, dec, mail>>

unchangedMain ==
    UNCHANGED <<env, retries, senders, pc, cnf, handler, exitCode, decodeErr,
                valErr, valCount, bound, dec, mail>>

\* the server calls the handler with a request
Receive(r) ==
    /\ pc = "serving"
    /\ reqs[r].st = "idle"
    /\ \E targetName \in QueryTargets, body \in Bodies :
         reqs' = [reqs EXCEPT ![r] = handleReceive(handler, targetName, body)]
    /\ unchangedMain

\* a faulty handler: it takes the delivery it dispatches out of the target
Spawn_TakeDelivery(r) ==
    /\ pc = "serving"
    /\ reqs[r].st = "spawn"
    /\ reqs' = [reqs EXCEPT ![r] = handleSpawn(handler, reqs[r])]
    /\ handler' = [handler EXCEPT !.targets[reqs[r].target] = Tail(@)]
    /\ UNCHANGED <<env, retries, senders, pc, cnf, exitCode, decodeErr, valErr,
                   valCount, bound, dec, mail>>

\* the handler starts the goroutine of the next delivery
Spawn(r) ==
    /\ pc = "serving"
    /\ reqs[r].st = "spawn"
    /\ reqs' = [reqs EXCEPT ![r] = handleSpawn(handler, reqs[r])]
    /\ unchangedMain

\* a faulty fan-out: a delivery's Send starts when the earlier ones have returned
SendBegin_Sequential(r, i) ==
    /\ pc = "serving"
    /\ reqs[r].tasks[i].st = "ready"
    /\ \A k \in 1..(i - 1) : reqs[r].tasks[k].st = "done"
    /\ reqs' = [reqs EXCEPT ![r] = taskSendBegin(reqs[r], i, retries)]
    /\ unchangedMain

\* a goroutine calls Send; the call of a nil sender panics and ends the process
SendBegin(r, i) ==
    /\ pc = "serving"
    /\ reqs[r].tasks[i].st = "ready"
    /\ IF reqs[r].tasks[i].sender = NilSender
       THEN /\ Exit(2)
            /\ UNCHANGED reqs
       ELSE /\ reqs' = [reqs EXCEPT ![r] = taskSendBegin(reqs[r], i, retries)]
            /\ UNCHANGED <<pc, exitCode>>
    /\ UNCHANGED <<env, retries, senders, cnf, handler, decodeErr, valErr,
                   valCount, bound, dec, mail>>

\* SMTPSender.Send calls sendfn
SmtpAttempt(r, i) ==
    /\ pc = "serving"
    /\ reqs[r].tasks[i].st = "send"
    /\ reqs[r].tasks[i].call.st = "attempt"
    /\ \E out \in SendOutcomes(reqs[r].tasks[i].call.idx) :
         reqs' = [reqs EXCEPT ![r].tasks[i].call =
                      smtpSendAttempt(reqs[r].tasks[i].call, retries, out)]
    /\ unchangedMain

\* SMTPSender.Send has slept
SmtpSleep(r, i) ==
    /\ pc = "serving"
    /\ reqs[r].tasks[i].st = "send"
    /\ reqs[r].tasks[i].call.st = "sleep"
    /\ reqs' = [reqs EXCEPT ![r].tasks[i].call =
                    smtpSendSleep(reqs[r].tasks[i].call, retries)]
    /\ unchangedMain

\* the Send of a sender that is no SMTPSender returns, nil or an error
SenderReturn(r, i) ==
    /\ pc = "serving"
    /\ reqs[r].tasks[i].st = "send"
    /\ reqs[r].tasks[i].call.st = "run"
    /\ \E out \in {NilError, [id |-> 1, net |-> FALSE, temp |-> FALSE]} :
         reqs' = [reqs EXCEPT ![r].tasks[i].call =
                      [@ EXCEPT !.st = "ret", !.err = out]]
    /\ unchangedMain

\* Send returns to the goroutine, which ends
TaskFinish(r, i) ==
    /\ pc = "serving"
    /\ reqs[r].tasks[i].st = "send"
    /\ reqs[r].tasks[i].call.st = "ret"
    /\ reqs' = [reqs EXCEPT ![r] = taskFinish(reqs[r], i)]
    /\ unchangedMain

\* a faulty handler: no wg.Wait before the return
HandlerReturn_NoWait(r) ==
    /\ pc = "serving"
    /\ reqs[r].st = "wait"
    /\ reqs' = [reqs EXCEPT ![r] = handleReturn(reqs[r])]
    /\ unchangedMain

\* wg.Wait returns when the counter is zero, and the handler returns
HandlerReturn(r) ==
    /\ pc = "serving"
    /\ reqs[r].st = "wait"
    /\ reqs[r].wg = 0
    /\ reqs' = [reqs EXCEPT ![r] = handleReturn(reqs[r])]
    /\ unchangedMain

\* the response is written and the server is done with the request
Forget(r) ==
    /\ pc = "serving"
    /\ reqs[r].st = "done"
    /\ reqs' = [reqs EXCEPT ![r] = IdleRequest]
    /\ unchangedMain

Next ==
    \/ MainVersion
    \/ MainProcessEnv
    \/ MainLogger
    \/ MainNewHandler
    \/ MainListen
    \/ \E r \in Requests : Receive(r)
    \/ \E r \in Requests : Spawn(r)
    \/ \E r \in Requests : \E i \in DOMAIN reqs[r].tasks : SendBegin(r, i)
    \/ \E r \in Requests : \E i \in DOMAIN reqs[r].tasks : SmtpAttempt(r, i)
    \/ \E r \in Requests : \E i \in DOMAIN reqs[r].tasks : SmtpSleep(r, i)
    \/ \E r \in Requests : \E i \in DOMAIN reqs[r].tasks : SenderReturn(r, i)
    \/ \E r \in Requests : \E i \in DOMAIN reqs[r].tasks : TaskFinish(r, i)
    \/ \E r \in Requests : HandlerReturn(r)
    \/ \E r \in Requests : Forget(r)

Spec == Init /\ [][Next]_vars

(***************************************************************************)
(* The start-up alone, over every routing string of up to MaxEntries       *)
(* entries.                                                                *)
(***************************************************************************)
InitStartup ==
    /\ env \in {[set |-> FALSE, value |-> <<>>]}
                 \cup {[set |-> TRUE, value |-> v] : v \in EnvValues}
    /\ retries = [i \in 1..3 |-> RetryWait(i)]
    /\ senders \in Registries
    /\ InitProcess

NextStartup ==
    \/ MainVersion
    \/ MainProcessEnv
    \/ MainLogger
    \/ MainNewHandler
    \/ MainListen

SpecStartup == InitStartup /\ [][NextStartup]_vars

(***************************************************************************)
(* The process under a fair scheduler: a goroutine that can run does run,   *)
(* and a Send that has been called goes on until it returns.               *)
(***************************************************************************)
\* a step of the handler of the request r or of one of its goroutines
RequestStep(r) ==
    \/ Spawn(r)
    \/ \E i \in DOMAIN reqs[r].tasks : SendBegin(r, i)
    \/ \E i \in DOMAIN reqs[r].tasks : SmtpAttempt(r, i)
    \/ \E i \in DOMAIN reqs[r].tasks : SmtpSleep(r, i)
    \/ \E i \in DOMAIN reqs[r].tasks : SenderReturn(r, i)
    \/ \E i \in DOMAIN reqs[r].tasks : TaskFinish(r, i)
    \/ HandlerReturn(r)

\* a process whose target t has an im and an smtp delivery, both registered
InitLive ==
    /\ env = [set |-> TRUE,
              value |-> Join(<<targetString(<<"t">>, DeliveryIM, <<"x">>),
                               targetString(<<"t">>, DeliverySMTP,
                                            <<"a", "@", "b", ".", "c">>)>>, ",")]
    /\ retries \in {<<>>, <<RetryWait(1)>>, <<RetryWait(1), RetryWait(2)>>}
    /\ senders = [n \in {DeliverySMTP, DeliveryIM} |->
                     IF n = DeliverySMTP THEN SMTPSender ELSE OtherSender(n)]
    /\ InitProcess

SpecLive == InitLive /\ [][Next]_vars /\ \A r \in Requests : WF_vars(RequestStep(r))

(***************************************************************************)
(* A configuration under a sequence of Decode calls, each with the raw     *)
(* entries its value is joined from, and MarshalJSON on what they built.   *)
(***************************************************************************)
\* the raw entries of the decoded values
DecodePool ==
    { <<"t", ":", "s", ":", "a">>,
      <<"t", ":", "s", ":", "b">>,
      <<"t", ":", "i", ":", "\"">>,
      <<"u", ":", "s", ":", "a">>,
      <<"t", ":", "s">>,
      <<"t", ":", ":", "a">>,
      <<"t", ":", "s", ":", "a", ":", "b">>,
      <<>> }

RECURSIVE decodedCount(_)
\* the number of raw entries of the calls made so far
decodedCount(hist) ==
    IF hist = <<>> THEN 0 ELSE Len(Head(hist).entries) + decodedCount(Tail(hist))

InitDecode ==
    /\ env = [set |-> FALSE, value |-> <<>>]
    /\ retries = [i \in 1..3 |-> RetryWait(i)]
    /\ senders = [n \in {DeliverySMTP} |-> SMTPSender]
    /\ InitProcess

\* cnf.Decode(value) on the configuration, value being the entries es joined
\* by commas
DecodeCall ==
    /\ \E n \in 1..(MaxDecoded - decodedCount(dec.hist)) :
       \E es \in [1..n -> DecodePool] :
          LET value == Join(es, ",")
              res   == Decode(dec.cnf, value)
          IN  dec' = [cnf |-> res.targets, before |-> dec.cnf,
                      hist |-> Append(dec.hist, [entries |-> es, value |-> value,
                                                 err |-> res.err]),
                      err |-> res.err, json |-> <<>>, marshalled |-> FALSE]
    /\ UNCHANGED <<env, retries, senders, pc, cnf, handler, exitCode, decodeErr,
                   valErr, valCount, bound, reqs, mail>>

\* cnf.MarshalJSON() on the configuration
MarshalCall ==
    /\ ~dec.marshalled
    /\ \E order \in MapOrders(DOMAIN dec.cnf) :
          dec' = [dec EXCEPT !.json = MarshalJSON(dec.cnf, order),
                             !.marshalled = TRUE]
    /\ UNCHANGED <<env, retries, senders, pc, cnf, handler, exitCode, decodeErr,
                   valErr, valCount, bound, reqs, mail>>

NextDecode ==
    \/ DecodeCall
    \/ MarshalCall

SpecDecode == InitDecode /\ [][NextDecode]_vars

(***************************************************************************)
(* A call of SMTPSender.Send up to the subject of the mail, over messages  *)
(* whose first line of text is up to MaxOver characters longer than        *)
(* subjectMaxLen.                                                          *)
(***************************************************************************)
\* strings.Repeat(s, n)
Repeat(s, n) == [i \in 1..(n * Len(s)) |-> s[((i - 1) % Len(s)) + 1]]

\* the first lines of the texts: ASCII letters, two-byte characters, and
\* two-byte characters after one ASCII letter
TextLines ==
    UNION {{Repeat(<<"a">>, n), Repeat(EAcute, n), <<"a">> \o Repeat(EAcute, n)} :
           n \in 1..(subjectMaxLen + MaxOver)}

\* Message.Text: one line, a heading and a paragraph, an empty line and a
\* paragraph of two lines
MessageTexts ==
    UNION {{l, <<"#", " ">> \o l \o <<"\n", "b">>, <<"\n">> \o l \o <<"\n", "b">>} :
           l \in TextLines}

\* Message.Subject: none, a short one, one of more than subjectMaxLen bytes
MessageSubjects == {<<>>, <<"S">>, Repeat(EAcute, subjectMaxLen)}

InitSubject ==
    /\ env = [set |-> FALSE, value |-> <<>>]
    /\ retries = [i \in 1..3 |-> RetryWait(i)]
    /\ senders = [n \in {DeliverySMTP} |-> SMTPSender]
    /\ InitProcess

\* s.Send(recipients, msg) is called
MailEnter ==
    /\ mail.st = "none"
    /\ \E subject \in MessageSubjects, text \in MessageTexts :
          mail' = [mail EXCEPT !.st = "entered",
                               !.msg = [Subject |-> subject, Text |-> text]]
    /\ UNCHANGED <<env, retries, senders, pc, cnf, handler, exitCode, decodeErr,
                   valErr, valCount, bound, reqs, dec>>

\* md := string(blackfriday.Run([]byte(msg.Text)))
MailRender ==
    /\ mail.st = "entered"
    /\ mail' = [mail EXCEPT !.st = "rendered", !.md = blackfridayRun(mail.msg.Text)]
    /\ UNCHANGED <<env, retries, senders, pc, cnf, handler, exitCode, decodeErr,
                   valErr, valCount, bound, reqs, dec>>

\* the subject is taken or derived and set on the mail
MailSubject ==
    /\ mail.st = "rendered"
    /\ mail' = [mail EXCEPT !.st = "subject",
                            !.subject = mailSubject(mail.msg, mail.md)]
    /\ UNCHANGED <<env, retries, senders, pc, cnf, handler, exitCode, decodeErr,
                   valErr, valCount, bound, reqs, dec>>

NextSubject ==
    \/ MailEnter
    \/ MailRender
    \/ MailSubject

SpecSubject == InitSubject /\ [][NextSubject]_vars


(***************************************************************************)
(* The claims.                                                             *)
(***************************************************************************)
\* the deliveries of the target a request names
TargetOf(q) == handler.targets[q.target]

\* the call of Send the handler owes to the delivery dlv for the request q
ExpectedCall(q, dlv) ==
    [sender |-> senders[dlv.name], recipients |-> dlv.recipients,
     msg |-> [Subject |-> q.body.subject, Text |-> q.body.text]]

\* the request has passed every check of the handler
Accepted(q) == q.st \in {"spawn", "wait"} \/ (q.st = "done" /\ q.status = 200)

\* C1: a request that passes the checks and names a target with N deliveries
\* makes the handler call Send N times in all: once for each delivery of the
\* target, on the sender registered for its channel, with its recipients and
\* the decoded message; while the request runs no other call is made and none
\* is made twice.
C1_SendOncePerDelivery ==
    \A r \in Requests :
        LET q == reqs[r]
        IN  Accepted(q) =>
              /\ \A c \in BagToSet(q.calls) :
                    /\ CopiesIn(c, q.calls) = 1
                    /\ \E i \in 1..Len(TargetOf(q)) : c = ExpectedCall(q, TargetOf(q)[i])
              /\ q.st = "done" =>
                    /\ BagCardinality(q.calls) = Len(TargetOf(q))
                    /\ \A i \in 1..Len(TargetOf(q)) :
                          CopiesIn(ExpectedCall(q, TargetOf(q)[i]), q.calls) = 1

\* a request to a target with two deliveries, beside another target, is answered
C1_Witness ==
    \E r \in Requests :
        /\ reqs[r].st = "done"
        /\ reqs[r].status = 200
        /\ Len(TargetOf(reqs[r])) = 2
        /\ Cardinality(DOMAIN handler.targets) = 2
        /\ BagCardinality(reqs[r].calls) = 2

\* C2: the handler has not returned while a goroutine of the request is still
\* to call Send or is inside Send: in every state in which the request is
\* completed every one of its goroutines has finished.
C2_ReturnAfterAllSends ==
    \A r \in Requests :
        reqs[r].st = "done" =>
            \A i \in DOMAIN reqs[r].tasks : reqs[r].tasks[i].st = "done"

\* a completed request one of whose Sends slept and then returned an error
C2_Witness ==
    \E r \in Requests :
        /\ reqs[r].st = "done"
        /\ Len(reqs[r].tasks) = 2
        /\ \E i \in DOMAIN reqs[r].tasks :
              /\ Len(reqs[r].tasks[i].call.trace) >= 3
              /\ reqs[r].tasks[i].call.err # NilError

\* the target is configured and the body is a JSON object with a non-empty text
ValidRequest(q) ==
    /\ q.st # "idle"
    /\ q.target \in DOMAIN handler.targets
    /\ q.body.kind = "object"
    /\ q.body.text # ""

\* C3: for a configured target and a JSON body with a non-empty text the
\* response is 200 with an empty body, whatever the Sends return: no state of
\* such a request has another status or a response text.
C3_StatusIgnoresSendErrors ==
    \A r \in Requests :
        ValidRequest(reqs[r]) =>
            /\ reqs[r].resp = NoResponse
            /\ reqs[r].status = IF reqs[r].st = "done" THEN 200 ELSE 0

\* a request answered 200 both of whose Sends returned an error
C3_Witness ==
    \E r \in Requests :
        /\ ValidRequest(reqs[r])
        /\ reqs[r].st = "done"
        /\ Len(reqs[r].tasks) = 2
        /\ \A i \in DOMAIN reqs[r].tasks : reqs[r].tasks[i].call.err # NilError
        /\ Cardinality(reqs[r].log) = 2

\* C4: a request rejected with 400 has called no Send and started no goroutine.
C4_NoSendOnReject ==
    \A r \in Requests :
        reqs[r].status = 400 =>
            /\ reqs[r].calls = EmptyBag
            /\ reqs[r].tasks = <<>>
            /\ reqs[r].st = "done"

\* a request for a configured target rejected for its empty text
C4_Witness ==
    \E r \in Requests :
        /\ reqs[r].status = 400
        /\ reqs[r].target \in DOMAIN handler.targets
        /\ reqs[r].resp.text = "Missing required fields: text"

\* the calls of SMTPSender.Send: the requests and the tasks that made them
SmtpCalls ==
    {rc \in UNION {{<<r, i>> : i \in DOMAIN reqs[r].tasks} : r \in Requests} :
        /\ reqs[rc[1]].tasks[rc[2]].st \in {"send", "done"}
        /\ reqs[rc[1]].tasks[rc[2]].sender = SMTPSender}

CallOf(rc) == reqs[rc[1]].tasks[rc[2]].call

\* the error is a temporary network error
Transient(e) == e.net /\ e.temp

\* the places of the attempts in the trace of a call
Attempts(c) == {k \in DOMAIN c.trace : c.trace[k].ev = "attempt"}
\* the places of the waits in the trace of a call
Sleeps(c) == {k \in DOMAIN c.trace : c.trace[k].ev = "sleep"}

\* C5: with L >= 1 retry waits, when the first j < L attempts of a call fail
\* with temporary network errors and the next one succeeds, the call has made
\* exactly j + 1 attempts, nothing follows the successful attempt in its trace
\* and it returns nil.
C5_SuccessEndsTheCall ==
    \A rc \in SmtpCalls :
        LET c == CallOf(rc)
        IN  \A k \in Attempts(c) :
                (/\ Len(retries) >= 1
                 /\ c.trace[k].err = NilError
                 /\ \A m \in Attempts(c) :
                        m < k => Transient(c.trace[m].err))
                => /\ k = Len(c.trace)
                   /\ Cardinality(Attempts(c)) =
                        Cardinality({m \in Attempts(c) : m < k}) + 1
                   /\ Cardinality(Sleeps(c)) = Cardinality(Attempts(c)) - 1
                   /\ Cardinality(Attempts(c)) <= Len(retries)
                   /\ c.st = "ret"
                   /\ c.err = NilError

\* three retry waits, two temporary failures, then a success
C5_Witness ==
    \E rc \in SmtpCalls :
        /\ Len(retries) = 3
        /\ Cardinality(Attempts(CallOf(rc))) = 3
        /\ CallOf(rc).trace[Len(CallOf(rc).trace)].err = NilError
        /\ CallOf(rc).trace[Len(CallOf(rc).trace)].ev = "attempt"
        /\ CallOf(rc).st = "ret"
        /\ CallOf(rc).err = NilError

\* C6: with L >= 1 retry waits, a call all of whose attempts failed with
\* temporary network errors returns after exactly L attempts, and what it
\* returns is the error of the L-th attempt.
C6_ExhaustedReturnsLastError ==
    \A rc \in SmtpCalls :
        LET c == CallOf(rc)
        IN  (/\ Len(retries) >= 1
             /\ c.st = "ret"
             /\ \A k \in Attempts(c) : Transient(c.trace[k].err))
            => /\ Cardinality(Attempts(c)) = Len(retries)
               /\ \E k \in Attempts(c) :
                     /\ \A m \in Attempts(c) : m <= k
                     /\ c.err = c.trace[k].err
                     /\ c.err.id = Len(retries)

\* three retry waits and three temporary failures
C6_Witness ==
    \E rc \in SmtpCalls :
        /\ Len(retries) = 3
        /\ CallOf(rc).st = "ret"
        /\ Cardinality(Attempts(CallOf(rc))) = 3
        /\ Transient(CallOf(rc).err)
        /\ CallOf(rc).err.id = 3

\* C7: an attempt that fails with an error that is no temporary network error
\* is the last event of its call: no wait and no attempt follows it, and the
\* call returns that error.
C7_PermanentErrorReturnsAtOnce ==
    \A rc \in SmtpCalls :
        LET c == CallOf(rc)
        IN  \A k \in Attempts(c) :
                (c.trace[k].err # NilError /\ ~Transient(c.trace[k].err))
                => /\ k = Len(c.trace)
                   /\ c.st = "ret"
                   /\ c.err = c.trace[k].err
                   /\ Cardinality(Attempts(c)) = c.trace[k].err.id

\* the second attempt fails with an error that is no network error
C7_Witness ==
    \E rc \in SmtpCalls :
        /\ Cardinality(Attempts(CallOf(rc))) = 2
        /\ CallOf(rc).st = "ret"
        /\ CallOf(rc).err = [id |-> 2, net |-> FALSE, temp |-> FALSE]

\* C8: with no retry wait a call of Send makes exactly one attempt and returns
\* what that attempt returned.
C8_ZeroRetriesOneAttempt ==
    \A rc \in SmtpCalls :
        LET c == CallOf(rc)
        IN  (Len(retries) = 0 /\ c.st = "ret")
            => /\ Cardinality(Attempts(c)) = 1
               /\ Sleeps(c) = {}
               /\ \A k \in Attempts(c) : c.err = c.trace[k].err

\* the routing string decodes
DecodesOk == env.set /\ Decode(NoTargets, env.value).err = NoValError
\* the decoded configuration passes the validation in every order of the map
ValidatesOk ==
    \A order \in MapOrders(DOMAIN Decode(NoTargets, env.value).targets) :
        validateTargetConfig(DOMAIN senders, Decode(NoTargets, env.value).targets,
                             order) = NoValError

\* C9: the socket is bound and requests are served only when the routing string
\* has been decoded and validated with success and the validation has run
\* once; when Decode or the validation fails the process has exited with
\* failure and has never bound the socket; the validation never runs twice.
C9_ServeOnlyAfterValidation ==
    /\ valCount <= 1
    /\ (bound \/ pc = "serving" \/ \E r \in Requests : reqs[r] # IdleRequest)
         => /\ DecodesOk
            /\ ValidatesOk
            /\ valCount = 1
            /\ handler.ok
            /\ handler.targets = Decode(NoTargets, env.value).targets
    /\ (pc # "start" /\ exitCode # 0 /\ env.set /\ ~DecodesOk)
         => pc = "exited" /\ exitCode = 1 /\ ~bound /\ valCount = 0
    /\ (valCount = 1 /\ ~ValidatesOk)
         => pc = "exited" /\ exitCode = 1 /\ ~bound
    /\ (decodeErr # NoValError \/ valErr # NoValError)
         => pc = "exited" /\ exitCode = 1 /\ ~bound

\* the process serves after one validation
C9_Witness ==
    /\ pc = "serving"
    /\ bound
    /\ valCount = 1
    /\ Cardinality(DOMAIN cnf) = 2

\* every channel of cnf is registered and every smtp recipient is an e-mail address
AllTriplesValid ==
    \A t \in DOMAIN cnf : \A i \in 1..Len(cnf[t]) :
        \A k \in 1..Len(cnf[t][i].recipients) :
            /\ cnf[t][i].name \in DOMAIN senders
            /\ cnf[t][i].name = DeliverySMTP
                  => reEmailMatchString(cnf[t][i].recipients[k])

\* C10: the validation returns "empty targets" for a configuration without a
\* target; for one with a target it returns nil exactly when every channel is
\* registered and every recipient of an smtp delivery matches the e-mail
\* pattern; "invalid email" is only ever reported for an smtp recipient.
C10_ValidateResult ==
    valCount = 1 =>
        /\ DOMAIN cnf = {} => valErr = valError(errKindEmptyTargets, <<>>)
        /\ DOMAIN cnf # {} => (valErr = NoValError <=> AllTriplesValid)
        /\ valErr.kind = errKindInvalidEmail =>
              \E t \in DOMAIN cnf : \E i \in 1..Len(cnf[t]) :
                  \E k \in 1..Len(cnf[t][i].recipients) :
                      /\ cnf[t][i].name = DeliverySMTP
                      /\ ~reEmailMatchString(cnf[t][i].recipients[k])
                      /\ valErr.target =
                           targetString(t, cnf[t][i].name, cnf[t][i].recipients[k])

\* a configuration is accepted whose im recipient is no e-mail address
C10_Witness ==
    /\ valCount = 1
    /\ valErr = NoValError
    /\ \E t \in DOMAIN cnf : \E i \in 1..Len(cnf[t]) :
          /\ cnf[t][i].name = DeliveryIM
          /\ \E k \in 1..Len(cnf[t][i].recipients) :
                ~reEmailMatchString(cnf[t][i].recipients[k])
    /\ \E t \in DOMAIN cnf : \E i \in 1..Len(cnf[t]) : cnf[t][i].name = DeliverySMTP

\* the last call of Decode on the configuration
LastCall == dec.hist[Len(dec.hist)]

\* the positions of the colons of a raw entry
Colons(e) == {i \in 1..Len(e) : e[i] = ":"}

\* the raw entry is three non-empty fields with colons between them
WellFormed(e) ==
    \E i, j \in 1..Len(e) :
        /\ Colons(e) = {i, j}
        /\ 1 < i
        /\ i + 1 < j
        /\ j < Len(e)

\* the positions of the entries of a call that are not well formed
IllFormed(es) == {k \in 1..Len(es) : ~WellFormed(es[k])}

\* C11: for a non-empty input, Decode returns the error InvalidSyntax exactly
\* when some comma-separated entry is not three non-empty fields separated by
\* colons, and the error carries the raw text of the first such entry;
\* otherwise Decode returns no error.
C11_InvalidSyntaxIffIllFormed ==
    (dec.hist # <<>> /\ LastCall.value # <<>>) =>
        LET es  == LastCall.entries
            bad == IllFormed(es)
        IN  IF bad = {}
            THEN dec.err = NoValError
            ELSE LET k == CHOOSE b \in bad : \A c \in bad : b <= c
                 IN  dec.err = valError(errKindInvTargetSyntax, es[k])

\* a call whose second entry is the first ill-formed one, for an empty field
C11_Witness ==
    /\ dec.hist # <<>>
    /\ Len(LastCall.entries) >= 2
    /\ WellFormed(LastCall.entries[1])
    /\ LastCall.entries[2] = <<"t", ":", ":", "a">>
    /\ dec.err = valError(errKindInvTargetSyntax, <<"t", ":", ":", "a">>)

\* the fields of a well-formed raw entry, from the positions of its colons
FirstColon(e) == CHOOSE i \in Colons(e) : \A j \in Colons(e) : i <= j
LastColon(e) == CHOOSE i \in Colons(e) : \A j \in Colons(e) : j <= i
TargetField(e) == SubSeq(e, 1, FirstColon(e) - 1)
ChannelField(e) == SubSeq(e, FirstColon(e) + 1, LastColon(e) - 1)
RecipientField(e) == SubSeq(e, LastColon(e) + 1, Len(e))

\* the entries a call merges: all of them, or those before the first
\* ill-formed one; none for the empty value
Merged(call) ==
    IF call.value = <<>> THEN <<>>
    ELSE LET es == call.entries
             n  == IF IllFormed(es) = {} THEN Len(es)
                   ELSE (CHOOSE b \in IllFormed(es) : \A c \in IllFormed(es) : b <= c) - 1
         IN  SubSeq(es, 1, n)

RECURSIVE AddedRecipients(_, _, _)
\* the recipients the entries es give to the channel c of the target t, in order
AddedRecipients(es, t, c) ==
    IF es = <<>> THEN <<>>
    ELSE (IF TargetField(Head(es)) = t /\ ChannelField(Head(es)) = c
          THEN <<RecipientField(Head(es))>> ELSE <<>>)
         \o AddedRecipients(Tail(es), t, c)

RECURSIVE NewKinds(_, _, _)
\* the channel kinds of the target t in the entries es that are not among
\* known, in the order of their first occurrence
NewKinds(es, t, known) ==
    IF es = <<>> THEN <<>>
    ELSE IF TargetField(Head(es)) = t /\ ChannelField(Head(es)) \notin known
         THEN <<ChannelField(Head(es))>>
              \o NewKinds(Tail(es), t, known \cup {ChannelField(Head(es))})
         ELSE NewKinds(Tail(es), t, known)

\* the channel kinds of a target's deliveries, in their order
KindsOf(tgt) == [i \in 1..Len(tgt) |-> tgt[i].name]

\* the recipients of the channel c in a target's deliveries, none if absent
RecipientsOf(tgt, c) ==
    IF \E i \in 1..Len(tgt) : tgt[i].name = c
    THEN tgt[CHOOSE i \in 1..Len(tgt) : tgt[i].name = c].recipients
    ELSE <<>>

\* C12: after any sequence of Decode calls each target holds at most one
\* delivery per channel kind; a call leaves the target's existing deliveries
\* in place and appends the new channel kinds after them in the order of their
\* first occurrence, and each delivery's recipients are the ones it had
\* followed by the recipients of the merged entries for that target and
\* channel, in entry order.
C12_OneDeliveryPerKind ==
    /\ \A t \in DOMAIN dec.cnf :
          \A i, j \in 1..Len(dec.cnf[t]) :
              i # j => dec.cnf[t][i].name # dec.cnf[t][j].name
    /\ dec.hist # <<>> =>
          LET es == Merged(LastCall)
          IN  /\ DOMAIN dec.cnf
                    = DOMAIN dec.before \cup {TargetField(es[k]) : k \in 1..Len(es)}
              /\ \A t \in DOMAIN dec.cnf :
                    LET old == IF t \in DOMAIN dec.before THEN dec.before[t] ELSE <<>>
                        now == dec.cnf[t]
                    IN  /\ KindsOf(now)
                              = KindsOf(old)
                                \o NewKinds(es, t, {old[i].name : i \in 1..Len(old)})
                        /\ \A i \in 1..Len(now) :
                              now[i].recipients
                                  = RecipientsOf(old, now[i].name)
                                    \o AddedRecipients(es, t, now[i].name)

\* a second call that gives the target t a new channel kind and then one more
\* recipient for the kind it had
C12_Witness ==
    /\ Len(dec.hist) = 2
    /\ dec.err = NoValError
    /\ DOMAIN dec.before = {<<"t">>}
    /\ dec.before[<<"t">>] = <<[name |-> <<"s">>, recipients |-> <<<<"a">>>>]>>
    /\ dec.cnf[<<"t">>] = <<[name |-> <<"s">>, recipients |-> <<<<"a">>, <<"b">>>>],
                           [name |-> <<"i">>, recipients |-> <<<<"\"">>>>]>>

\* C13: decoding the empty string returns no error and leaves a configuration
\* without targets, and the validation of that configuration fails with
\* "empty targets" and no offending entry, upon which main exits with failure.
C13_EmptyDecodesThenFailsValidation ==
    (env.set /\ env.value = <<>> /\ pc # "start" /\ exitCode # 0) =>
        /\ decodeErr = NoValError
        /\ cnf = NoTargets
        /\ DOMAIN cnf = {}
        /\ valCount = 1 =>
              /\ valErr = valError(errKindEmptyTargets, <<>>)
              /\ handler = NoHandler
              /\ pc = "exited"
              /\ exitCode = 1

\* the empty routing string has been decoded and has failed the validation
C13_Witness ==
    /\ env.set
    /\ env.value = <<>>
    /\ decodeErr = NoValError
    /\ valCount = 1
    /\ valErr.kind = errKindEmptyTargets
    /\ pc = "exited"

\* two calls of Decode on a fresh configuration, both without error
TwoAccepted ==
    /\ Len(dec.hist) = 2
    /\ dec.hist[1].err = NoValError
    /\ dec.hist[2].err = NoValError

\* the value "a,b" for the values a and b of the two calls
Concatenated == dec.hist[1].value \o <<",">> \o dec.hist[2].value

\* C14 as stated: for all inputs a and b that Decode accepts, decoding "a,b"
\* into a fresh configuration returns no error and yields the content that
\* decoding a and then b into one configuration yields.
C14_ConcatIsMerge ==
    TwoAccepted =>
        /\ Decode(NoTargets, Concatenated).err = NoValError
        /\ Decode(NoTargets, Concatenated).targets = dec.cnf

\* C14, amended: for all non-empty inputs a and b that Decode accepts,
\* decoding "a,b" into a fresh configuration returns no error and yields the
\* content that decoding a and then b into one configuration yields; when a
\* or b is the empty string, which Decode accepts, decoding "a,b" returns the
\* error InvalidSyntax for the empty entry.
C14_ConcatIsMergeNonEmpty ==
    TwoAccepted =>
        IF dec.hist[1].value # <<>> /\ dec.hist[2].value # <<>>
        THEN /\ Decode(NoTargets, Concatenated).err = NoValError
             /\ Decode(NoTargets, Concatenated).targets = dec.cnf
        ELSE Decode(NoTargets, Concatenated).err
                 = valError(errKindInvTargetSyntax, <<>>)

\* a and b are non-empty and both name the channel s of the target t
C14_Witness ==
    /\ TwoAccepted
    /\ dec.hist[1].value # <<>>
    /\ dec.hist[2].value # <<>>
    /\ <<"t">> \in DOMAIN dec.before
    /\ dec.cnf[<<"t">>] = <<[name |-> <<"s">>, recipients |-> <<<<"a">>, <<"b">>>>]>>

\* the (target, channel, recipient) triples of a configuration
Triples(targets) ==
    UNION {UNION {{<<t, targets[t][i].name, targets[t][i].recipients[k]>> :
                      k \in 1..Len(targets[t][i].recipients)} :
                  i \in 1..Len(targets[t])} :
           t \in DOMAIN targets}

RECURSIVE Unescape(_)
\* the text between the quotes of a quoted string with its escapes undone;
\* ok is false when a quote stands unescaped or a backslash escapes nothing
Unescape(s) ==
    IF s = <<>> THEN [ok |-> TRUE, str |-> <<>>]
    ELSE IF Head(s) = "\""
         THEN [ok |-> FALSE, str |-> <<>>]
    ELSE IF Head(s) = "\\"
         THEN IF Len(s) >= 2 /\ s[2] \in {"\"", "\\"}
              THEN LET rest == Unescape(Tail(Tail(s)))
                   IN  [ok |-> rest.ok, str |-> <<s[2]>> \o rest.str]
              ELSE [ok |-> FALSE, str |-> <<>>]
    ELSE LET rest == Unescape(Tail(s))
         IN  [ok |-> rest.ok, str |-> <<Head(s)>> \o rest.str]

\* the string a quoted string stands for
Unquote(s) ==
    IF Len(s) >= 2 /\ s[1] = "\"" /\ s[Len(s)] = "\""
    THEN Unescape(SubSeq(s, 2, Len(s) - 1))
    ELSE [ok |-> FALSE, str |-> <<>>]

IsContinuation(b) == b = "a9"

\* the number of characters of a string of bytes
CharCount(s) == Cardinality({i \in 1..Len(s) : ~IsContinuation(s[i])})

\* the first n characters of a string of bytes, all of it if it has no more
FirstChars(s, n) ==
    IF CharCount(s) <= n THEN s
    ELSE LET k == CHOOSE i \in 1..Len(s) :
                     /\ ~IsContinuation(s[i])
                     /\ CharCount(SubSeq(s, 1, i - 1)) = n
         IN  SubSeq(s, 1, k - 1)

\* C16: the subject Send sets on the mail is Message.Subject unchanged when it
\* is not empty; otherwise it is the first non-empty line of the rendered
\* text without its tags, cut to its first 78 characters, and so is never
\* longer than 78 characters.
C16_SubjectIsFirst78Characters ==
    mail.st = "subject" =>
        IF mail.msg.Subject # <<>>
        THEN mail.subject = mail.msg.Subject
        ELSE /\ mail.subject
                    = FirstChars(firstNonEmpty(Split(StripTags(mail.md), "\n")),
                                 subjectMaxLen)
             /\ CharCount(mail.subject) <= subjectMaxLen

\* the checks a request fails, each taken alone, numbered in the order of the
\* claim: 1 no target, 2 unknown target, 3 no body, 4 a body the JSON decoder
\* refuses, 5 no text
FailedChecks(q) ==
    {n \in 1..5 :
        \/ n = 1 /\ q.target = <<>>
        \/ n = 2 /\ q.target \notin DOMAIN handler.targets
        \/ n = 3 /\ q.body.kind = "NoBody"
        \/ n = 4 /\ q.body.kind \in {"NoBody", "malformed", "array"}
        \/ n = 5 /\ q.body.text = ""}

\* the response to a request that fails the n-th check
RejectionOf(n, q) ==
    IF n = 1 THEN [text |-> "Parameter 'target' is missed", arg |-> <<>>]
    ELSE IF n = 2 THEN [text |-> "Unknown target", arg |-> q.target]
    ELSE IF n = 3 THEN [text |-> "No body", arg |-> <<>>]
    ELSE IF n = 4 THEN [text |-> "Invalid body", arg |-> <<>>]
    ELSE [text |-> "Missing required fields: text", arg |-> <<>>]

\* C17: the handler applies its checks in the order no target, unknown target,
\* no body, body that does not decode, no text, and answers 400 with the
\* diagnostic of the first check that fails, whatever the later checks would
\* say; a request that fails none is accepted.
C17_FirstFailedCheckReported ==
    \A r \in Requests :
        LET q == reqs[r]
            failed == FailedChecks(q)
        IN  q.st # "idle" =>
              IF failed = {}
              THEN Accepted(q)
              ELSE /\ q.st = "done"
                   /\ q.status = 400
                   /\ q.resp = RejectionOf(CHOOSE n \in failed :
                                               \A k \in failed : n <= k, q)

\* a request with an unknown target and a body that is not JSON is answered
\* as an unknown target
C17_Witness ==
    \E r \in Requests :
        /\ reqs[r].st = "done"
        /\ reqs[r].target = <<"z">>
        /\ reqs[r].body.kind = "malformed"
        /\ reqs[r].status = 400
        /\ reqs[r].resp = [text |-> "Unknown target", arg |-> <<"z">>]

\* C18: in a handler that NewHandler returned without error every delivery of
\* every target has a channel kind that is a key of the registry, so the
\* lookup senders[dlv.name] of a goroutine never misses: every task holds the
\* sender registered for its delivery and no call is made on a nil sender; an
\* unsupported channel kind is reported by the validation alone, upon which
\* the process exits without serving a request.
C18_SenderLookupNeverMisses ==
    /\ handler.ok =>
          \A t \in DOMAIN handler.targets : \A i \in 1..Len(handler.targets[t]) :
              handler.targets[t][i].name \in DOMAIN handler.senders
    /\ \A r \in Requests : \A i \in 1..Len(reqs[r].tasks) :
          reqs[r].tasks[i].st # "none" =>
              /\ reqs[r].tasks[i].dlv.name \in DOMAIN handler.senders
              /\ reqs[r].tasks[i].sender = handler.senders[reqs[r].tasks[i].dlv.name]
              /\ reqs[r].tasks[i].sender # NilSender
    /\ exitCode # 2
    /\ valErr.kind = errKindUnsupportedDelivery =>
          /\ pc = "exited"
          /\ ~bound
          /\ \A r \in Requests : reqs[r] = IdleRequest

\* a request has two goroutines in Send, one on the sender of each channel kind
C18_Witness ==
    \E r \in Requests : \E i, j \in 1..Len(reqs[r].tasks) :
        /\ reqs[r].tasks[i].st = "send"
        /\ reqs[r].tasks[i].dlv.name = DeliveryIM
        /\ reqs[r].tasks[i].sender = OtherSender(DeliveryIM)
        /\ reqs[r].tasks[j].st = "send"
        /\ reqs[r].tasks[j].dlv.name = DeliverySMTP
        /\ reqs[r].tasks[j].sender = SMTPSender

\* the Send of the i-th delivery of the request is blocked: in the network
\* I/O of an attempt or of another sender's Send, or in a backoff sleep
SendBlocked(r, i) ==
    /\ reqs[r].tasks[i].st = "send"
    /\ reqs[r].tasks[i].call.st \in {"attempt", "sleep", "run"}

\* the next step of the j-th delivery of the request can be taken: the start
\* of its goroutine, the call of Send, a step of Send or its return
CanProceed(r, j) ==
    IF reqs[r].tasks[j].st = "none" THEN ENABLED Spawn(r)
    ELSE IF reqs[r].tasks[j].st = "ready" THEN ENABLED SendBegin(r, j)
    ELSE \/ ENABLED SmtpAttempt(r, j)
         \/ ENABLED SmtpSleep(r, j)
         \/ ENABLED SenderReturn(r, j)
         \/ ENABLED TaskFinish(r, j)

\* C19: within one request, whenever the Send of one delivery is blocked, in
\* network I/O or in a backoff sleep, every other delivery that has not
\* finished can take its next step, be it the start of its goroutine, the
\* call of its Send, a step of that Send or its return: no delivery waits for
\* a sibling's Send to return.
C19_SiblingsProceedWhileBlocked ==
    \A r \in Requests : \A i, j \in 1..Len(reqs[r].tasks) :
        (i # j /\ SendBlocked(r, i) /\ reqs[r].tasks[j].st # "done")
            => CanProceed(r, j)

\* a later delivery has finished its Send while the Send of an earlier one
\* has not come past its start
C19_Witness ==
    \E r \in Requests : \E i, j \in 1..Len(reqs[r].tasks) :
        /\ i < j
        /\ SendBlocked(r, i)
        /\ reqs[r].tasks[i].call.trace = <<>>
        /\ reqs[r].tasks[j].st = "done"

\* C20: in the trace of one call of Send the first event is the first attempt,
\* with no wait before it; an attempt other than the first comes directly
\* after the wait of the previous entry, which comes directly after the
\* previous attempt and its temporary network error; the i-th wait lasts what
\* the i-th entry of Retries says, and no entry serves two waits of a call.
C20_AttemptsSequentialWaitsInOrder ==
    \A rc \in SmtpCalls :
        LET t == CallOf(rc).trace
        IN  /\ t # <<>> => (t[1].ev = "attempt" /\ t[1].n = 1)
            /\ \A k \in Attempts(CallOf(rc)) :
                  t[k].n > 1 =>
                      /\ k >= 3
                      /\ t[k - 1].ev = "sleep"
                      /\ t[k - 1].n = t[k].n - 1
                      /\ t[k - 2].ev = "attempt"
                      /\ t[k - 2].n = t[k].n - 1
                      /\ Transient(t[k - 2].err)
            /\ \A k \in Sleeps(CallOf(rc)) :
                  /\ k >= 2
                  /\ t[k - 1].ev = "attempt"
                  /\ t[k - 1].n = t[k].n
                  /\ Transient(t[k - 1].err)
                  /\ t[k].n \in 1..Len(retries)
                  /\ t[k].d = retries[t[k].n]
            /\ \A k, l \in Sleeps(CallOf(rc)) : k < l => t[k].n < t[l].n
            /\ \A k, l \in Attempts(CallOf(rc)) : k < l => t[k].n < t[l].n

\* a call has made its third attempt, after two waits
C20_Witness ==
    \E rc \in SmtpCalls :
        /\ Len(CallOf(rc).trace) >= 5
        /\ CallOf(rc).trace[5].ev = "attempt"
        /\ CallOf(rc).trace[5].n = 3
        /\ CallOf(rc).trace[4].d = RetryWait(2)
        /\ CallOf(rc).trace[2].d = RetryWait(1)

\* C21: every wait of a call of Send is followed by an attempt: a wait is never
\* the last event of a call that has returned, and a returned call that made
\* k attempts has waited k - 1 times.
C21_NoWaitAfterLastAttempt ==
    \A rc \in SmtpCalls :
        LET c == CallOf(rc)
        IN  (c.st = "ret" /\ Attempts(c) # {})
            => /\ c.trace[Len(c.trace)].ev = "attempt"
               /\ Cardinality(Sleeps(c)) = Cardinality(Attempts(c)) - 1

\* the places of the (target, delivery, recipient) triples of cnf
TriplePlaces ==
    UNION {UNION {{<<t, i, k>> : k \in 1..Len(cnf[t][i].recipients)} :
                  i \in 1..Len(cnf[t])} :
           t \in DOMAIN cnf}

\* the channel kind of the triple is not registered
Unsupported(p) == cnf[p[1]][p[2]].name \notin DOMAIN senders

\* the triple fails a rule of the validation
FailsRule(p) ==
    \/ Unsupported(p)
    \/ /\ cnf[p[1]][p[2]].name = DeliverySMTP
       /\ ~reEmailMatchString(cnf[p[1]][p[2]].recipients[p[3]])

\* the error the rules give for a failing triple: the support comes first
RuleError(p) ==
    valError(IF Unsupported(p) THEN errKindUnsupportedDelivery
             ELSE errKindInvalidEmail,
             targetString(p[1], cnf[p[1]][p[2]].name,
                          cnf[p[1]][p[2]].recipients[p[3]]))

\* the triple q comes before the triple p in the order of their target
EarlierInTarget(q, p) ==
    /\ q[1] = p[1]
    /\ q[2] < p[2] \/ (q[2] = p[2] /\ q[3] < p[3])

\* C22: the validation of a configuration with targets fails exactly when
\* some triple fails a rule, and the error is that of a failing triple before
\* which no triple of the same target fails: "unsupported delivery type" when
\* its channel kind is not registered, whatever its recipient looks like, and
\* "invalid email" otherwise, with the text target:channel:recipient of the
\* triple.
C22_FirstFailingTripleReported ==
    (valCount = 1 /\ DOMAIN cnf # {}) =>
        /\ valErr # NoValError <=> \E p \in TriplePlaces : FailsRule(p)
        /\ valErr # NoValError =>
              \E p \in TriplePlaces :
                  /\ FailsRule(p)
                  /\ \A q \in TriplePlaces : EarlierInTarget(q, p) => ~FailsRule(q)
                  /\ valErr = RuleError(p)
        /\ valErr.kind = errKindInvalidEmail =>
              \A p \in TriplePlaces : RuleError(p) = valErr => ~Unsupported(p)

\* an smtp recipient that is no e-mail address is reported as unsupported
\* when smtp is not registered, and a later triple of its target fails too
C22_Witness ==
    /\ valCount = 1
    /\ DeliverySMTP \notin DOMAIN senders
    /\ valErr = valError(errKindUnsupportedDelivery,
                         <<"u", ":", "s", "m", "t", "p", ":", "x">>)
    /\ \E p \in TriplePlaces : p[1] = <<"u">> /\ p[3] = 2 /\ FailsRule(p)

C24_SuccessNeedsSuccessfulAttempt ==
    \A rc \in SmtpCalls :
        LET c == CallOf(rc)
        IN  (c.st = "ret" /\ c.err = NilError)
            => \E k \in Attempts(c) : c.trace[k].err = NilError

\* the number of recipients a configuration holds in all
RecipientCount(targets) ==
    Cardinality(UNION {UNION {{<<t, i, k>> : k \in 1..Len(targets[t][i].recipients)} :
                              i \in 1..Len(targets[t])} :
                       t \in DOMAIN targets})

\* C25: a call of Decode that returns InvalidSyntax has merged every entry
\* before the offending one, in their order, and no entry after it: the
\* receiver holds what decoding those entries alone would have left, one more
\* recipient for each of them, and so is not what it was before the call when
\* an entry precedes the offending one.
C25_FailedDecodeKeepsPrefix ==
    (dec.hist # <<>> /\ dec.err # NoValError) =>
        LET es == LastCall.entries
            k  == CHOOSE b \in IllFormed(es) : \A c \in IllFormed(es) : b <= c
        IN  /\ IllFormed(es) # {}
            /\ dec.err = valError(errKindInvTargetSyntax, es[k])
            /\ RecipientCount(dec.cnf) = RecipientCount(dec.before) + (k - 1)
            /\ k = 1 => dec.cnf = dec.before
            /\ k > 1 =>
                  /\ dec.cnf # dec.before
                  /\ dec.cnf = Decode(dec.before, Join(SubSeq(es, 1, k - 1), ",")).targets
                  /\ Triples(dec.cnf)
                       = Triples(dec.before)
                         \cup {<<TargetField(es[j]), ChannelField(es[j]),
                                 RecipientField(es[j])>> : j \in 1..(k - 1)}

\* a call on a fresh configuration has failed at its second entry, with a
\* valid entry after it, and has left the first entry in the receiver
C25_Witness ==
    /\ Len(dec.hist) = 1
    /\ dec.err # NoValError
    /\ Len(LastCall.entries) = 3
    /\ WellFormed(LastCall.entries[1])
    /\ ~WellFormed(LastCall.entries[2])
    /\ WellFormed(LastCall.entries[3])
    /\ dec.before = NoTargets
    /\ RecipientCount(dec.cnf) = 1

\* the goroutines of the request that have finished
FinishedTasks(q) == {i \in DOMAIN q.tasks : q.tasks[i].st = "done"}

\* the barrier of every request: the counter is the number of deliveries less
\* the goroutines that have finished, whatever their Send returned, it is set
\* before a goroutine starts, is never negative, and is zero exactly when all
\* have finished
BarrierCounts ==
    \A r \in Requests :
        LET q == reqs[r]
        IN  /\ Len(q.tasks) = Len(q.deliveries)
            /\ q.wg = Len(q.deliveries) - Cardinality(FinishedTasks(q))
            /\ q.wg >= 0
            /\ q.wg = 0 <=> FinishedTasks(q) = DOMAIN q.tasks
            /\ (\E i \in DOMAIN q.tasks : q.tasks[i].st # "none")
                  => q.st \in {"spawn", "wait", "done"}

\* C26: when every goroutine gets to run and every Send that is called goes on
\* to return, a request that has passed the checks is completed in the end;
\* throughout, the barrier counter is the number of deliveries less the
\* goroutines that have finished, each of which has decremented it once
\* whether its Send succeeded or failed, it is never negative and it is zero
\* exactly when all goroutines have finished.
C26_RequestCompletes ==
    /\ []BarrierCounts
    /\ \A r \in Requests :
          (reqs[r].st \in {"spawn", "wait"}) ~> (reqs[r].st = "done")

\* a request with two deliveries is completed, the Send of one has failed and
\* that of the other has succeeded, and the counter is zero
C26_Witness ==
    \E r \in Requests :
        /\ reqs[r].st = "done"
        /\ Len(reqs[r].deliveries) = 2
        /\ reqs[r].wg = 0
        /\ \E i, j \in DOMAIN reqs[r].tasks :
              /\ reqs[r].tasks[i].call.err # NilError
              /\ reqs[r].tasks[j].call.err = NilError
              /\ reqs[r].tasks[j].call.st = "ret"

\* C27: after any sequence of Decode calls, failed ones included, every target
\* of the configuration has a delivery, every delivery has a recipient, and no
\* target name, channel kind or recipient is the empty string.
C27_NoEmptyParts ==
    \A t \in DOMAIN dec.cnf :
        /\ t # <<>>
        /\ Len(dec.cnf[t]) >= 1
        /\ \A i \in 1..Len(dec.cnf[t]) :
              /\ dec.cnf[t][i].name # <<>>
              /\ Len(dec.cnf[t][i].recipients) >= 1
              /\ \A k \in 1..Len(dec.cnf[t][i].recipients) :
                    dec.cnf[t][i].recipients[k] # <<>>

\* a configuration with two targets after three calls, the second of which
\* failed on an entry with an empty field
C27_Witness ==
    /\ Len(dec.hist) = 3
    /\ dec.hist[2].err = valError(errKindInvTargetSyntax, <<"t", ":", ":", "a">>)
    /\ dec.hist[3].err = NoValError
    /\ Cardinality(DOMAIN dec.cnf) = 2

====
